---- MODULE Spec2Model ----
(***************************************************************************)
(* Slip re-theming: the Index page (two variants of the component: the     *)
(* fragment-driven renderer and the static bank template) and the          *)
(* process-slip edge function it invokes.                                  *)
(*                                                                         *)
(* Canvas coordinates are fixed-point numbers in units of 1/100 pixel, so  *)
(* that (element.x / 100) * canvas.width is exact for integer percentages. *)
(* A canvas is its size and the ordered log of draw operations issued on   *)
(* it; the encoded image is a function of that log.                        *)
(***************************************************************************)
EXTENDS Integers, Sequences, FiniteSets, TLC

VARIABLES
    variant,         \* which Index component is mounted: "fragment" | "template"
    slip,            \* the elements the recognizer reads off the uploaded slips
    selectedImage,   \* useState<string | null>
    processedImage,  \* useState<string | null>
    isProcessing,    \* useState(false)
    toast,           \* title of the last toast shown
    reads,           \* files whose FileReader load is pending
    calls,           \* the processImage invocations, by number
    clock,           \* system clock, in minutes
    produced,        \* history: the inputs and canvas of the call that wrote processedImage
    ended,           \* history: what the call that ended last did
    server           \* the edge function: the request it is serving and its response

vars == <<variant, slip, selectedImage, processedImage, isProcessing, toast,
          reads, calls, clock, produced, ended, server>>

(***************************************************************************)
(* Bounds of the model.                                                    *)
(***************************************************************************)
MaxFrags == 3   \* longest element list the recognizer returns
MaxCalls == 2   \* processImage invocations in progress at once
MaxClock == 1   \* minutes the clock may advance
MaxReads == 1   \* FileReader loads pending at once

NULL == [null |-> TRUE]

(***************************************************************************)
(* Files the user can pick. An image file carries its natural size and     *)
(* whether the browser can decode it; "notes" is not an image/* file.      *)
(***************************************************************************)
Files ==
    { [name |-> "photo", type |-> "image/jpeg", width |-> 801, height |-> 61, decodable |-> TRUE],
      [name |-> "blank", type |-> "image/svg+xml", width |-> 0, height |-> 600, decodable |-> TRUE],
      [name |-> "broken", type |-> "image/heic", width |-> 0, height |-> 0, decodable |-> FALSE],
      [name |-> "notes", type |-> "text/plain", width |-> 0, height |-> 0, decodable |-> FALSE] }

IsImageType(file) == file.type \in {"image/jpeg", "image/svg+xml", "image/heic"}

Images == { f \in Files : IsImageType(f) }

(***************************************************************************)
(* Elements of the recognizer's JSON array: fragments, or a JSON null.     *)
(***************************************************************************)
Fragment(t, x, y, s) == [text |-> t, x |-> x, y |-> y, fontSize |-> s]

Elements ==
    { Fragment("TOTAL", 50, 50, "large"),
      Fragment("shop", 0, 0, "small"),
      Fragment("date", 100, 100, "medium"),
      Fragment("stamp", 150, -10, "large"),
      NULL }

BoundedSeq(S, n) == UNION { [1..k -> S] : k \in 0..n }

(***************************************************************************)
(* JavaScript values carried in the textElements field of a response.      *)
(***************************************************************************)
JsArray(items) == [type |-> "array", items |-> items]
JsObject == [type |-> "object", items |-> <<>>]
JsUndefined == [type |-> "undefined", items |-> <<>>]

IsArray(v) == v.type = "array"
Truthy(v) == v.type \in {"array", "object"}

(***************************************************************************)
(* process-slip edge function.                                             *)
(*                                                                         *)
(* The recognizer's message content is a string; it is modelled by its     *)
(* form and by the element list it spells out:                             *)
(*   "array"   the bare JSON array                                         *)
(*   "fenced"  the JSON array inside a ```json fence                       *)
(*   "prose"   the JSON array surrounded by free text                      *)
(*   "object"  a JSON object with no bracket in it                         *)
(*   "text"    free text that is no JSON                                   *)
(*   "brackets" free text with [ and ] in it, no JSON between them          *)
(*   "empty"   the empty string, or no content at all                      *)
(***************************************************************************)
ContentForms == {"array", "fenced", "prose", "object", "text", "brackets", "empty"}

\* the characters of a content that is no JSON
RawText(form) ==
    CASE form = "text" -> "Thank you for your purchase"
      [] form = "brackets" -> "Paid [cash] at till [4]"
      [] OTHER -> ""

Content(form, elems) ==
    [form |-> form, elems |-> IF form \in {"array", "fenced", "prose"} THEN elems ELSE <<>>,
     raw |-> RawText(form)]

\* lines 79-81: the string handed to JSON.parse
JsonStr(extractedText) ==
    CASE extractedText.form = "fenced" -> [kind |-> "array", elems |-> extractedText.elems]
      [] extractedText.form \in {"array", "prose"} -> [kind |-> "array", elems |-> extractedText.elems]
      [] extractedText.form = "object" -> [kind |-> "object", elems |-> <<>>]
      [] OTHER -> [kind |-> "text", elems |-> <<>>]

\* line 82: JSON.parse, which throws on text that is no JSON
JsonParse(jsonStr) ==
    CASE jsonStr.kind = "array" -> [ok |-> TRUE, value |-> JsArray(jsonStr.elems)]
      [] jsonStr.kind = "object" -> [ok |-> TRUE, value |-> JsObject]
      [] OTHER -> [ok |-> FALSE, value |-> JsUndefined]

FallbackFontSize == "medium"

\* line 86: the fallback element list
FallbackElements(extractedText) ==
    << [text |-> extractedText.raw, x |-> 50, y |-> 50, fontSize |-> FallbackFontSize] >>

\* mutant: no element is substituted when JSON.parse throws
ParseTextElementsNoFallback(extractedText) ==
    LET parsed == JsonParse(JsonStr(extractedText))
    IN  IF parsed.ok THEN parsed.value ELSE JsArray(<<>>)

\* lines 76-87
ParseTextElements(extractedText) ==
    LET parsed == JsonParse(JsonStr(extractedText))
    IN  IF parsed.ok THEN parsed.value ELSE JsArray(FallbackElements(extractedText))

Response(status, textElements, error, n) ==
    [status |-> status, textElements |-> textElements, error |-> error, recognizerCalls |-> n]

GatewayStatuses == {200, 429, 402, 503}

NoResponse == Response(0, JsUndefined, "", 0)

\* lines 9-19: what the handler does before it calls the recognizer; done when it
\* has answered already
BeforeFetch(req, apiKey) ==
    IF req.method = "OPTIONS" THEN [done |-> TRUE, response |-> Response(200, JsUndefined, "", 0)]
    ELSE IF ~req.bodyOk
        THEN [done |-> TRUE,
              response |-> Response(500, JsUndefined, "Unexpected end of JSON input", 0)]
    ELSE IF ~apiKey
        THEN [done |-> TRUE,
              response |-> Response(500, JsUndefined, "LOVABLE_API_KEY is not configured", 0)]
    ELSE [done |-> FALSE, response |-> NoResponse]

\* mutant: every recognizer status but 200 is answered 500
AfterFetchAll500(gateway) ==
    IF gateway.status # 200 THEN Response(500, JsUndefined, "Failed to process image", 1)
    ELSE IF gateway.content.form = "empty"
        THEN Response(500, JsUndefined, "No text extracted from image", 1)
    ELSE Response(200, ParseTextElements(gateway.content), "", 1)

\* lines 50-99: what the handler answers once the recognizer has
AfterFetch(gateway) ==
    IF gateway.status = 429
        THEN Response(429, JsUndefined, "Rate limit exceeded. Please try again later.", 1)
    ELSE IF gateway.status = 402
        THEN Response(402, JsUndefined, "Payment required. Please add credits to your workspace.", 1)
    ELSE IF gateway.status # 200 THEN Response(500, JsUndefined, "Failed to process image", 1)
    ELSE IF gateway.content.form = "empty"
        THEN Response(500, JsUndefined, "No text extracted from image", 1)
    ELSE Response(200, ParseTextElements(gateway.content), "", 1)

\* lines 8-101: the handler, given the request and what its environment answers
ServeHandler(req, apiKey, gateway) ==
    LET early == BeforeFetch(req, apiKey)
    IN  IF early.done THEN early.response ELSE AfterFetch(gateway)

\* supabase.functions.invoke: a non-2xx response comes back as error, a 2xx one as data
Invoke(response) ==
    IF response.status = 200
        THEN [error |-> FALSE, message |-> "", textElements |-> response.textElements]
        ELSE [error |-> TRUE, message |-> "Edge Function returned a non-2xx status code",
              textElements |-> JsUndefined]

(***************************************************************************)
(* Canvas 2D context: the draw operations the page issues.                 *)
(* fillRect, arc and path coordinates are whole pixels; fillText           *)
(* coordinates (x100, y100) are in units of 1/100 pixel.                   *)
(***************************************************************************)
Color(c) == [kind |-> "color", value |-> c]

LinearGradient(x1, y1, stop0, stop1) ==
    [kind |-> "linear", x0 |-> 0, y0 |-> 0, x1 |-> x1, y1 |-> y1,
     stop0 |-> stop0, stop1 |-> stop1]

FillRect(x, y, w, h, style) ==
    [op |-> "fillRect", x |-> x, y |-> y, w |-> w, h |-> h, style |-> style]

FillText(text, x100, y100, font, style, align) ==
    [op |-> "fillText", text |-> text, x100 |-> x100, y100 |-> y100,
     font |-> font, style |-> style, align |-> align]

FillArc(x, y, r, style) == [op |-> "arc", x |-> x, y |-> y, r |-> r, style |-> style]

StrokeLine(x0, y0, x1, y1, style) ==
    [op |-> "stroke", x0 |-> x0, y0 |-> y0, x1 |-> x1, y1 |-> y1, style |-> style]

Font(px, weight, family) == [px |-> px, weight |-> weight, family |-> family]

\* a whole pixel as a fillText coordinate
Px(n) == n * 100

TextureSpacing == 20

RECURSIVE TextureLines(_, _, _)
\* for (let i = 0; i < canvas.height; i += 20) ctx.fillRect(0, i, canvas.width, 1)
TextureLines(i, width, height) ==
    IF i < height
        THEN <<FillRect(0, i, width, 1, Color("rgba(0, 0, 0, 0.05)"))>>
                 \o TextureLines(i + TextureSpacing, width, height)
        ELSE <<>>

\* gradient fill and pattern overlay of the fragment-driven variant
Background(width, height) ==
    <<FillRect(0, 0, width, height, LinearGradient(width, height, "#7c3aed", "#c026d3"))>>
        \o TextureLines(0, width, height)

\* gradient fill and pattern overlay of the static template
TemplateBackground(width, height) ==
    <<FillRect(0, 0, width, height, LinearGradient(width, height, "#a8305a", "#7b3897"))>>
        \o TextureLines(0, width, height)

\* mutant: the sizes of small and large exchanged
FontSizeSwapped(element) ==
    IF element.fontSize = "large" THEN 12
    ELSE IF element.fontSize = "small" THEN 24
    ELSE 16

\* element.fontSize === "large" ? 24 : element.fontSize === "small" ? 12 : 16
FontSize(element) ==
    IF element.fontSize = "large" THEN 24
    ELSE IF element.fontSize = "small" THEN 12
    ELSE 16

\* mutant: the percentage taken for a pixel count
ElementXAsPixels(element, width) == Px(element.x)

\* (element.x / 100) * canvas.width, in 1/100 pixel
ElementX(element, width) == element.x * width

\* (element.y / 100) * canvas.height, in 1/100 pixel
ElementY(element, height) == element.y * height

\* the body of the forEach callback; reading a property of null throws
DrawElement(element, width, height) ==
    FillText(element.text, ElementX(element, width), ElementY(element, height),
             Font(FontSize(element), "normal", "Arial, sans-serif"), Color("white"), "center")

RECURSIVE DrawElementsButLast(_, _, _, _)
\* mutant: the loop stops one element early
DrawElementsButLast(items, i, width, height) ==
    IF i >= Len(items) THEN [ops |-> <<>>, threw |-> FALSE]
    ELSE IF items[i] = NULL THEN [ops |-> <<>>, threw |-> TRUE]
    ELSE LET rest == DrawElementsButLast(items, i + 1, width, height)
         IN  [ops |-> <<DrawElement(items[i], width, height)>> \o rest.ops,
              threw |-> rest.threw]

RECURSIVE DrawElementsReversed(_, _, _, _)
\* mutant: the elements drawn last to first
DrawElementsReversed(items, i, width, height) ==
    IF i > Len(items) THEN [ops |-> <<>>, threw |-> FALSE]
    ELSE IF items[i] = NULL THEN [ops |-> <<>>, threw |-> TRUE]
    ELSE LET rest == DrawElementsReversed(items, i + 1, width, height)
         IN  [ops |-> rest.ops \o <<DrawElement(items[i], width, height)>>,
              threw |-> rest.threw]

RECURSIVE DrawElementsInBounds(_, _, _, _)
\* mutant: an element that resolves outside the canvas is rejected
DrawElementsInBounds(items, i, width, height) ==
    IF i > Len(items) THEN [ops |-> <<>>, threw |-> FALSE]
    ELSE IF items[i] = NULL THEN [ops |-> <<>>, threw |-> TRUE]
    ELSE IF \/ ElementX(items[i], width) \notin 0..Px(width)
            \/ ElementY(items[i], height) \notin 0..Px(height)
        THEN [ops |-> <<>>, threw |-> TRUE]
    ELSE LET rest == DrawElementsInBounds(items, i + 1, width, height)
         IN  [ops |-> <<DrawElement(items[i], width, height)>> \o rest.ops,
              threw |-> rest.threw]

RECURSIVE DrawElements(_, _, _, _)
\* data.textElements.forEach(...) from index i on: the draws issued, and whether
\* the callback threw (which ends the loop)
DrawElements(items, i, width, height) ==
    IF i > Len(items) THEN [ops |-> <<>>, threw |-> FALSE]
    ELSE IF items[i] = NULL THEN [ops |-> <<>>, threw |-> TRUE]
    ELSE LET rest == DrawElements(items, i + 1, width, height)
         IN  [ops |-> <<DrawElement(items[i], width, height)>> \o rest.ops,
              threw |-> rest.threw]

\* mutant: an empty list is drawn as a placeholder text
DrawTextPlaceholder(textElements, width, height) ==
    IF Truthy(textElements) /\ IsArray(textElements)
        THEN IF textElements.items = <<>>
                THEN [ops |-> <<FillText("No text found", Px(width) \div 2, Px(height) \div 2,
                                         Font(16, "normal", "Arial, sans-serif"),
                                         Color("white"), "center")>>,
                      threw |-> FALSE]
                ELSE DrawElements(textElements.items, 1, width, height)
        ELSE [ops |-> <<>>, threw |-> FALSE]

\* if (data.textElements && Array.isArray(data.textElements)) { forEach }
DrawText(textElements, width, height) ==
    IF Truthy(textElements) /\ IsArray(textElements)
        THEN DrawElements(textElements.items, 1, width, height)
        ELSE [ops |-> <<>>, threw |-> FALSE]

\* canvas.toDataURL("image/png"): a canvas without area encodes to "data:,"
ToDataURL(canvas) ==
    IF canvas.width = 0 \/ canvas.height = 0
        THEN [mime |-> "", width |-> 0, height |-> 0, pixels |-> <<>>]
        ELSE [mime |-> "image/png", width |-> canvas.width, height |-> canvas.height,
              pixels |-> canvas.ops]

\* mutant: the fragment-driven variant sized like the static template
RenderFragmentsFixedSize(img, textElements) ==
    LET width == 800
        height == 1200
        text == DrawText(textElements, width, height)
    IN  [canvas |-> [width |-> width, height |-> height,
                     ops |-> Background(width, height) \o text.ops],
         threw |-> text.threw]

\* img.onload of the fragment-driven variant, up to the encoding
RenderFragments(img, textElements) ==
    LET width == img.width
        height == img.height
        text == DrawText(textElements, width, height)
    IN  [canvas |-> [width |-> width, height |-> height,
                     ops |-> Background(width, height) \o text.ops],
         threw |-> text.threw]

TemplateWidth == 800
TemplateHeight == 1200

\* new Date().toLocaleDateString("th-TH", {... minute: "2-digit"}): the text of the minute
CurrentDate(now) == ToString(now)

\* lines 93-204: logo, bank name, date, the fixed labels, QR placeholder
TemplateLabels(width, now) ==
    LET white == Color("white")
        gold == Color("#f4d03f")
        rule == Color("rgba(255, 255, 255, 0.3)")
        mid == Px(width) \div 2
        left == Px(60)
        right == Px(width - 60)
        T(text, x100, y, px, weight, style, align) ==
            FillText(text, x100, Px(y), Font(px, weight, "Arial"), style, align)
    IN  << FillArc(width \div 2, 80, 40, Color("#c13832")),
           T("leaf", mid, 95, 40, "bold", Color("#4caf50"), "center"),
           T("KASIKORN BANK", mid, 160, 28, "bold", gold, "center"),
           T(CurrentDate(now), mid, 200, 18, "normal", white, "center"),
           StrokeLine(50, 230, width - 50, 230, rule),
           T("From", left, 280, 20, "normal", white, "left"),
           T("Sender", left, 315, 24, "bold", white, "left"),
           T("->", mid, 315, 30, "normal", white, "center"),
           T("To", right, 280, 20, "normal", white, "right"),
           T("Receiver", right, 315, 24, "bold", white, "right"),
           StrokeLine(50, 350, width - 50, 350, rule),
           T("Reference", left, 400, 20, "normal", white, "left"),
           T("XXXXXXXXXX", left, 430, 22, "bold", white, "left"),
           T("Amount", left, 480, 20, "normal", white, "left"),
           T("X,XXX.XX", left, 520, 36, "bold", gold, "left"),
           T("Fee", left, 580, 20, "normal", white, "left"),
           T("0.00", left, 610, 22, "bold", white, "left"),
           StrokeLine(50, 660, width - 50, 660, rule),
           FillRect(width \div 2 - 100, 710, 200, 200, white),
           T("QR CODE", mid, 820, 20, "normal", Color("#a8305a"), "center"),
           T("scan to verify", mid, 960, 16, "normal", Color("rgba(255, 255, 255, 0.7)"), "center") >>

\* img.onload of the static template variant, up to the encoding
RenderTemplate(now) ==
    LET width == TemplateWidth
        height == TemplateHeight
    IN  [canvas |-> [width |-> width, height |-> height,
                     ops |-> TemplateBackground(width, height) \o TemplateLabels(width, now)],
         threw |-> FALSE]

\* the onload callback of the mounted variant
Render(v, img, textElements, now) ==
    IF v = "template" THEN RenderTemplate(now) ELSE RenderFragments(img, textElements)

(***************************************************************************)
(* The page.                                                               *)
(***************************************************************************)
Variants == {"fragment", "template"}

CallIds == 1..MaxCalls

Methods == {"POST", "OPTIONS"}

NoRequest == [method |-> "", bodyOk |-> FALSE]

NoGateway == [status |-> 0, content |-> Content("empty", <<>>)]

\* the edge function between requests
IdleServer ==
    [pc |-> "idle", req |-> NoRequest, apiKey |-> FALSE, gateway |-> NoGateway,
     fetches |-> 0, response |-> NoResponse]

\* a processImage invocation: where it stands, the selectedImage its closure
\* captured, the textElements it received
IdleCall == [pc |-> "idle", image |-> NULL, textElements |-> JsUndefined]

\* the element lists tried under every interleaving of the page
PageSlips ==
    { <<Fragment("TOTAL", 50, 50, "large")>>,
      <<Fragment("shop", 0, 0, "small"), NULL>> }

Mounted ==
    /\ variant \in Variants
    /\ processedImage = NULL
    /\ isProcessing = FALSE
    /\ toast = "none"
    /\ reads = {}
    /\ calls = [c \in CallIds |-> IdleCall]
    /\ clock = 0
    /\ produced = NULL
    /\ ended = NULL
    /\ server = IdleServer

\* the page as mounted
Init ==
    /\ Mounted
    /\ slip \in PageSlips
    /\ selectedImage = NULL

\* the page with an image selected, for every element list of the recognizer
\* (the static template for the lists of PageSlips)
InitRender ==
    /\ Mounted
    /\ slip \in BoundedSeq(Elements, MaxFrags)
    /\ variant = "template" => slip \in PageSlips
    /\ selectedImage \in Images

\* lines 16-33 of handleFileSelect / handleDrop: the type check and the reader
PickFile(file) ==
    /\ selectedImage = NULL          \* the input and drop zone render only then
    /\ IF ~IsImageType(file)
          THEN /\ toast' = "Invalid file type"
               /\ reads' = reads
          ELSE /\ Cardinality(reads \cup {file}) <= MaxReads
               /\ reads' = reads \cup {file}
               /\ toast' = toast
    /\ UNCHANGED <<server, variant, slip, selectedImage, processedImage, isProcessing,
                   calls, clock, produced, ended>>

handleFileSelect == \E file \in Files : PickFile(file)

handleDrop == \E file \in Files : PickFile(file)

\* reader.onload
ReaderOnload ==
    \E file \in reads :
        /\ reads' = reads \ {file}
        /\ selectedImage' = file
        /\ processedImage' = NULL
        /\ produced' = NULL
        /\ UNCHANGED <<server, variant, slip, isProcessing, toast, calls, clock, ended>>

\* the Upload New button
UploadNew ==
    /\ selectedImage # NULL
    /\ selectedImage' = NULL
    /\ processedImage' = NULL
    /\ produced' = NULL
    /\ UNCHANGED <<server, variant, slip, isProcessing, toast, reads, calls, clock, ended>>

FreeCalls == { c \in CallIds : calls[c].pc = "idle" }

\* the Process button: processImage up to its await
processImage ==
    /\ selectedImage # NULL
    /\ ~isProcessing                 \* disabled={isProcessing}
    /\ FreeCalls # {}
    /\ LET c == CHOOSE i \in FreeCalls : \A j \in FreeCalls : i <= j
       IN  calls' = [calls EXCEPT ![c] = [IdleCall EXCEPT !.pc = "invoke",
                                                           !.image = selectedImage]]
    /\ isProcessing' = TRUE
    /\ UNCHANGED <<server, variant, slip, selectedImage, processedImage, toast, reads,
                   clock, produced, ended>>

\* what the edge function answers to the page's request
Answers ==
    { ServeHandler([method |-> "POST", bodyOk |-> TRUE], apiKey,
                   [status |-> status, content |-> Content(form, slip)]) :
        apiKey \in BOOLEAN, status \in GatewayStatuses, form \in ContentForms }

\* what a call that ends leaves behind: the toasts it showed, whether it called
\* setProcessedImage, whether it threw outside any try block
Ended(c, reported, wrote, uncaught) ==
    [reported |-> reported, wrote |-> wrote, uncaught |-> uncaught]

\* processImage from the await to its end: the try body, catch and finally
InvokeReturn(c) ==
    /\ calls[c].pc = "invoke"
    /\ \E response \in Answers, reachable \in BOOLEAN, ctx \in BOOLEAN :
          LET result == IF reachable THEN Invoke(response)
                        ELSE [error |-> TRUE, message |-> "Failed to send a request",
                              textElements |-> JsUndefined]
          IN  IF result.error \/ ~ctx
                 THEN /\ calls' = [calls EXCEPT ![c] = IdleCall]
                      /\ toast' = "Processing failed"
                      /\ ended' = Ended(c, <<"Processing failed">>, FALSE, FALSE)
                 ELSE /\ calls' = [calls EXCEPT ![c].pc = "load",
                                                ![c].textElements = result.textElements]
                      /\ toast' = toast
                      /\ ended' = ended
    /\ isProcessing' = FALSE
    /\ UNCHANGED <<server, variant, slip, selectedImage, processedImage, reads, clock, produced>>

\* img.onload: the image decoded
ImgOnload(c) ==
    /\ calls[c].pc = "load"
    /\ calls[c].image.decodable
    /\ LET r == Render(variant, calls[c].image, calls[c].textElements, clock)
       IN  IF r.threw
              THEN /\ ended' = Ended(c, <<>>, FALSE, TRUE)
                   /\ UNCHANGED <<processedImage, toast, produced>>
              ELSE /\ processedImage' = ToDataURL(r.canvas)
                   /\ toast' = "Success!"
                   /\ produced' = [image |-> calls[c].image,
                                   textElements |-> calls[c].textElements,
                                   canvas |-> r.canvas]
                   /\ ended' = Ended(c, <<"Success!">>, TRUE, FALSE)
    /\ calls' = [calls EXCEPT ![c] = IdleCall]
    /\ UNCHANGED <<server, variant, slip, selectedImage, isProcessing, reads, clock>>

\* the image cannot be decoded: the error event fires and img has no onerror
ImgError(c) ==
    /\ calls[c].pc = "load"
    /\ ~calls[c].image.decodable
    /\ calls' = [calls EXCEPT ![c] = IdleCall]
    /\ ended' = Ended(c, <<>>, FALSE, FALSE)
    /\ UNCHANGED <<server, variant, slip, selectedImage, processedImage, isProcessing, toast,
                   reads, clock, produced>>

\* a minute passes
Tick ==
    /\ clock < MaxClock
    /\ clock' = clock + 1
    /\ UNCHANGED <<server, variant, slip, selectedImage, processedImage, isProcessing, toast,
                   reads, calls, produced, ended>>

\* the steps of a processImage invocation
CallStep ==
    \/ \E c \in CallIds : InvokeReturn(c)
    \/ \E c \in CallIds : ImgOnload(c)
    \/ \E c \in CallIds : ImgError(c)

\* the Process button pressed once the previous invocation has ended
processImageAlone ==
    /\ FreeCalls = CallIds
    /\ processImage

\* one processImage invocation after another, on the image selected
NextRender ==
    \/ processImageAlone
    \/ CallStep

Next ==
    \/ handleFileSelect
    \/ handleDrop
    \/ ReaderOnload
    \/ UploadNew
    \/ Tick
    \/ processImage
    \/ CallStep

\* the edge function deployed, for every element list of the recognizer
InitHandler ==
    /\ Mounted
    /\ slip \in BoundedSeq(Elements, MaxFrags)
    /\ selectedImage = NULL

\* serve(async (req) => ...): a request arrives
Receive ==
    /\ server.pc \in {"idle", "responded"}
    /\ \E method \in Methods, bodyOk \in BOOLEAN, apiKey \in BOOLEAN :
          server' = [IdleServer EXCEPT !.pc = "received",
                                       !.req = [method |-> method, bodyOk |-> bodyOk],
                                       !.apiKey = apiKey]
    /\ UNCHANGED <<variant, slip, selectedImage, processedImage, isProcessing, toast,
                   reads, calls, clock, produced, ended>>

\* lines 9-48: the handler up to its fetch of the recognizer
HandleRequest ==
    /\ server.pc = "received"
    /\ LET early == BeforeFetch(server.req, server.apiKey)
       IN  IF early.done
              THEN server' = [server EXCEPT !.pc = "responded", !.response = early.response]
              ELSE server' = [server EXCEPT !.pc = "fetching", !.fetches = @ + 1]
    /\ UNCHANGED <<variant, slip, selectedImage, processedImage, isProcessing, toast,
                   reads, calls, clock, produced, ended>>

\* lines 50-99: the recognizer has answered
GatewayAnswer ==
    /\ server.pc = "fetching"
    /\ \E status \in GatewayStatuses, form \in ContentForms :
          LET gateway == [status |-> status, content |-> Content(form, slip)]
          IN  server' = [server EXCEPT !.pc = "responded", !.gateway = gateway,
                                       !.response = AfterFetch(gateway)]
    /\ UNCHANGED <<variant, slip, selectedImage, processedImage, isProcessing, toast,
                   reads, calls, clock, produced, ended>>

NextHandler ==
    \/ Receive
    \/ HandleRequest
    \/ GatewayAnswer

Spec == Init /\ [][Next]_vars

SpecHandler == InitHandler /\ [][NextHandler]_vars

SpecRender == InitRender /\ [][NextRender]_vars

(***************************************************************************)
(* Properties.                                                             *)
(***************************************************************************)
IsText(o) == o.op = "fillText"

TextOps(ops) == SelectSeq(ops, IsText)

\* call c ends in this step
Ends(c) == calls[c].pc # "idle" /\ calls'[c].pc = "idle"

Succeeded(e) == e.reported = <<"Success!">>

Failed(e) == e.reported = <<"Processing failed">>

\* the recognizer's list as the fragment-driven variant received it
IsFragmentList(textElements) ==
    /\ IsArray(textElements)
    /\ \A i \in 1..Len(textElements.items) : textElements.items[i] # NULL

\* C1: every process call that ends has reported exactly one outcome, success
\* or failure, and raised no error outside the try block.
C1_OneOutcomePerCall ==
    ended # NULL =>
        /\ Succeeded(ended) \/ Failed(ended)
        /\ ~ended.uncaught

\* C2: a call that ends without success leaves processedImage as it was, and a
\* call that writes processedImage writes the encoding of a canvas on which the
\* full-canvas background and one text per element of its list were drawn
\* (fragment-driven variant).
C2_NoPartialOutput ==
    [][\A c \in CallIds :
          Ends(c) =>
             IF Succeeded(ended')
                THEN /\ ended'.wrote
                     /\ processedImage' = ToDataURL(produced'.canvas)
                     /\ produced'.textElements = calls[c].textElements
                     /\ Len(produced'.canvas.ops) >= 1
                     /\ produced'.canvas.ops[1].op = "fillRect"
                     /\ produced'.canvas.ops[1].w = produced'.canvas.width
                     /\ produced'.canvas.ops[1].h = produced'.canvas.height
                     /\ (variant = "fragment" /\ IsArray(calls[c].textElements)) =>
                            Len(TextOps(produced'.canvas.ops)) = Len(calls[c].textElements.items)
                ELSE /\ ~ended'.wrote
                     /\ processedImage' = processedImage]_vars

\* C2 witness: a call ended in failure while an earlier call's image is shown, and
\* a two-element list has been drawn and written
C2_Witness_FailedKeepsOutput ==
    /\ ended # NULL
    /\ Failed(ended)
    /\ produced # NULL
    /\ variant = "fragment"
    /\ IsArray(produced.textElements)
    /\ Len(produced.textElements.items) = 2
    /\ processedImage.mime = "image/png"

\* the draws of the shown image's elements: the i-th text drawn, for the i-th element
Drawn(i) == TextOps(produced.canvas.ops)[i]

\* processedImage was written by the fragment-driven variant from a list of fragments
ShowsFragments ==
    /\ produced # NULL
    /\ variant = "fragment"
    /\ IsFragmentList(produced.textElements)
    /\ Len(TextOps(produced.canvas.ops)) = Len(produced.textElements.items)

Items == produced.textElements.items

\* Math.round(n / d) for d > 0
RoundDiv(n, d) == (2 * n + d) \div (2 * d)

\* C3: a fragment with x, y in [0,100] is drawn at the whole pixel
\* (round(x/100 * width), round(y/100 * height)) of the target canvas.
C3_RoundedPixelPosition ==
    ShowsFragments =>
        \A i \in 1..Len(Items) :
            (Items[i].x \in 0..100 /\ Items[i].y \in 0..100) =>
                /\ Drawn(i).x100 = Px(RoundDiv(Items[i].x * produced.canvas.width, 100))
                /\ Drawn(i).y100 = Px(RoundDiv(Items[i].y * produced.canvas.height, 100))

\* C4: a fragment at x=0,y=0 is drawn at pixel (0,0), one at x=100,y=100 at pixel
\* (width,height) of the target canvas.
C4_Corners ==
    ShowsFragments =>
        \A i \in 1..Len(Items) :
            /\ (Items[i].x = 0 /\ Items[i].y = 0) =>
                   (Drawn(i).x100 = 0 /\ Drawn(i).y100 = 0)
            /\ (Items[i].x = 100 /\ Items[i].y = 100) =>
                   /\ Drawn(i).x100 = Px(produced.canvas.width)
                   /\ Drawn(i).y100 = Px(produced.canvas.height)

\* C4 witness: both corners drawn on an 801x61 canvas
C4_Witness_BothCorners ==
    /\ ShowsFragments
    /\ produced.canvas.width = 801
    /\ \E i, j \in 1..Len(Items) :
          /\ Items[i].x = 0 /\ Items[i].y = 0
          /\ Items[j].x = 100 /\ Items[j].y = 100
          /\ Drawn(j).x100 = 80100

SizeRank(class) == CASE class = "small" -> 1 [] class = "medium" -> 2 [] class = "large" -> 3

\* C5: a fragment is drawn at 12 px when small, 16 px when medium, 24 px when
\* large, and a fragment of a larger size class is drawn larger.
C5_FontSizeMapping ==
    ShowsFragments =>
        /\ \A i \in 1..Len(Items) :
              /\ Drawn(i).font.px \in {12, 16, 24}
              /\ Items[i].fontSize = "small" => Drawn(i).font.px = 12
              /\ Items[i].fontSize = "medium" => Drawn(i).font.px = 16
              /\ Items[i].fontSize = "large" => Drawn(i).font.px = 24
        /\ \A i, j \in 1..Len(Items) :
              SizeRank(Items[i].fontSize) < SizeRank(Items[j].fontSize) =>
                  Drawn(i).font.px < Drawn(j).font.px

\* C5 witness: a small and a large fragment drawn on one canvas
C5_Witness_SmallAndLarge ==
    /\ ShowsFragments
    /\ \E i, j \in 1..Len(Items) :
          /\ Items[i].fontSize = "small"
          /\ Items[j].fontSize = "large"
          /\ Drawn(i).font.px < Drawn(j).font.px

\* C6: a call that received the empty list and ends has succeeded, and the
\* canvas it encoded holds the gradient fill and the texture lines only.
C6_EmptyListIsBackground ==
    [][\A c \in CallIds :
          ( /\ Ends(c)
            /\ calls[c].pc = "load"
            /\ variant = "fragment"
            /\ calls[c].image.decodable
            /\ calls[c].textElements = JsArray(<<>>) ) =>
             /\ Succeeded(ended')
             /\ processedImage' = ToDataURL(produced'.canvas)
             /\ TextOps(produced'.canvas.ops) = <<>>
             /\ Len(produced'.canvas.ops) = 1 + (produced'.canvas.height + 19) \div 20
             /\ \A k \in 1..Len(produced'.canvas.ops) :
                   /\ produced'.canvas.ops[k].op = "fillRect"
                   /\ k > 1 => produced'.canvas.ops[k].h = 1]_vars

\* C6 witness: the empty list rendered and encoded
C6_Witness_EmptyList ==
    /\ produced # NULL
    /\ variant = "fragment"
    /\ produced.textElements = JsArray(<<>>)
    /\ processedImage.mime = "image/png"
    /\ Succeeded(ended)

\* C7: the texts drawn are the elements of the list, one draw each, in list
\* order, and they are the last draws on the canvas.
C7_DrawOrder ==
    (produced # NULL /\ variant = "fragment" /\ IsArray(produced.textElements)) =>
        LET ops == produced.canvas.ops
            n == Len(Items)
        IN  /\ Len(TextOps(ops)) = n
            /\ Len(ops) >= n
            /\ \A i \in 1..n :
                  LET o == ops[Len(ops) - n + i]
                  IN  /\ o.op = "fillText"
                      /\ o.text = Items[i].text
                      /\ o.x100 = Items[i].x * produced.canvas.width
                      /\ o.y100 = Items[i].y * produced.canvas.height

\* C7 witness: two different fragments drawn, the first of the list first
C7_Witness_TwoInOrder ==
    /\ ShowsFragments
    /\ Len(Items) = 2
    /\ Items[1].text # Items[2].text
    /\ Drawn(1).text = Items[1].text
    /\ Drawn(2).text = Items[2].text

OutOfBounds(e, width, height) ==
    \/ e.x * width < 0 \/ e.x * width > Px(width)
    \/ e.y * height < 0 \/ e.y * height > Px(height)

\* C8: a call whose list holds a fragment that resolves outside the canvas
\* succeeds all the same, with every fragment of the list drawn, that one at its
\* position outside the canvas.
C8_OutOfBoundsDrawn ==
    [][\A c \in CallIds :
          ( /\ Ends(c)
            /\ calls[c].pc = "load"
            /\ variant = "fragment"
            /\ calls[c].image.decodable
            /\ IsFragmentList(calls[c].textElements)
            /\ \E i \in 1..Len(calls[c].textElements.items) :
                  OutOfBounds(calls[c].textElements.items[i],
                              calls[c].image.width, calls[c].image.height) ) =>
             LET items == calls[c].textElements.items
                 texts == TextOps(produced'.canvas.ops)
             IN  /\ Succeeded(ended')
                 /\ processedImage' # NULL
                 /\ Len(texts) = Len(items)
                 /\ \A i \in 1..Len(items) :
                       /\ texts[i].text = items[i].text
                       /\ OutOfBounds(items[i], calls[c].image.width, calls[c].image.height) =>
                             \/ texts[i].x100 \notin 0..Px(produced'.canvas.width)
                             \/ texts[i].y100 \notin 0..Px(produced'.canvas.height)]_vars

\* C8 witness: a fragment outside the canvas and one inside it, both drawn
C8_Witness_OutsideAndInside ==
    /\ ShowsFragments
    /\ Succeeded(ended)
    /\ processedImage.mime = "image/png"
    /\ \E i, j \in 1..Len(Items) :
          /\ OutOfBounds(Items[i], produced.canvas.width, produced.canvas.height)
          /\ ~OutOfBounds(Items[j], produced.canvas.width, produced.canvas.height)
          /\ Drawn(i).x100 > Px(produced.canvas.width)

\* C9: a run with the same source image and the same element list as the run
\* whose image is shown writes the same image again, whatever the time.
C9_Deterministic ==
    [][(/\ produced # NULL
        /\ produced' # NULL
        /\ produced'.image = produced.image
        /\ produced'.textElements = produced.textElements) =>
           processedImage' = processedImage]_vars

\* C10: the canvas is 800x1200 in the static template whatever the source image,
\* and the source image's size in the fragment-driven variant; the gradient fill
\* covers it and there is a texture line across its width every 20 px down its height.
C10_CanvasSize ==
    produced # NULL =>
        LET cv == produced.canvas
        IN  /\ variant = "template" => (cv.width = 800 /\ cv.height = 1200)
            /\ variant = "fragment" =>
                  (cv.width = produced.image.width /\ cv.height = produced.image.height)
            /\ processedImage.mime = "image/png" =>
                  (processedImage.width = cv.width /\ processedImage.height = cv.height)
            /\ cv.ops[1].op = "fillRect"
            /\ cv.ops[1].x = 0 /\ cv.ops[1].y = 0
            /\ cv.ops[1].w = cv.width /\ cv.ops[1].h = cv.height
            /\ cv.ops[1].style.kind = "linear"
            /\ \A y \in 0..(cv.height - 1) :
                  y % 20 = 0 =>
                     \E k \in 2..Len(cv.ops) :
                        /\ cv.ops[k].op = "fillRect"
                        /\ cv.ops[k].x = 0 /\ cv.ops[k].y = y
                        /\ cv.ops[k].w = cv.width /\ cv.ops[k].h = 1

\* C10 witness: the static template rendered at 800x1200 from an 801x61 source
C10_Witness_TemplateSize ==
    /\ produced # NULL
    /\ variant = "template"
    /\ produced.image.width = 801
    /\ produced.image.height = 61
    /\ processedImage.width = 800
    /\ processedImage.height = 1200

\* C11: a call of the fragment-driven variant whose canvas has no area (the source
\* image has width 0 or height 0) ends in failure and writes no processedImage.
C11_ZeroAreaIsFailure ==
    [][\A c \in CallIds :
          ( /\ Ends(c)
            /\ calls[c].pc = "load"
            /\ variant = "fragment"
            /\ calls[c].image.decodable
            /\ calls[c].image.width = 0 \/ calls[c].image.height = 0
            /\ IsFragmentList(calls[c].textElements) ) =>
             /\ Failed(ended')
             /\ processedImage' = processedImage]_vars

\* the handler has answered a POST it read, after the recognizer answered 200
AnsweredRecognized ==
    /\ server.pc = "responded"
    /\ server.req.method = "POST"
    /\ server.fetches = 1
    /\ server.gateway.status = 200

C13_TextElementsIsFragmentList ==
    ( /\ server.pc = "responded"
      /\ server.req.method = "POST"
      /\ server.response.status = 200 ) =>
        IsFragmentList(server.response.textElements)

\* what C14 says of an answer, whatever the request's method
ErrorMapping ==
    /\ server.fetches <= 1
    /\ server.response.status \in {200, 429, 402, 500}
    /\ server.response.status # 200 =>
          (server.response.textElements = JsUndefined /\ server.response.error # "")
    /\ (server.fetches = 1 /\ server.gateway.status = 429) => server.response.status = 429
    /\ (server.fetches = 1 /\ server.gateway.status = 402) => server.response.status = 402
    /\ (server.fetches = 1 /\ server.gateway.status \notin {200, 429, 402}) =>
          server.response.status = 500
    /\ (server.fetches = 1 /\ server.gateway.status = 200
            /\ server.gateway.content.form = "empty") => server.response.status = 500

\* the cases of C14 in which the recognizer is not called
NoFetchCases ==
    /\ ~server.req.bodyOk => (server.response.status = 500 /\ server.fetches = 0)
    /\ (server.req.bodyOk /\ ~server.apiKey) =>
          (server.response.status = 500 /\ server.fetches = 0)
    /\ server.response.status = 200 =>
          /\ server.fetches = 1
          /\ server.gateway.status = 200
          /\ server.gateway.content.form # "empty"

\* C14 as claimed: every answer follows the error mapping, an unreadable body or
\* a missing key is answered 500 without a recognizer call, and 200 is answered
\* only after the recognizer answered 200 with content.
C14_ErrorMapping ==
    server.pc = "responded" => (ErrorMapping /\ NoFetchCases)

\* C14 as amended: the same of every request but OPTIONS; an OPTIONS request is
\* answered 200 with no textElements and no recognizer call.
C14_ErrorMappingButPreflight ==
    server.pc = "responded" =>
        /\ ErrorMapping
        /\ server.req.method # "OPTIONS" => NoFetchCases
        /\ server.req.method = "OPTIONS" =>
              /\ server.response.status = 200
              /\ server.response.textElements = JsUndefined
              /\ server.fetches = 0

\* C14 witness: the recognizer's 429 passed on, after one call of it
C14_Witness_RateLimited ==
    /\ server.pc = "responded"
    /\ server.req.method = "POST"
    /\ server.fetches = 1
    /\ server.gateway.status = 429
    /\ server.response.status = 429

InProgress == { c \in CallIds : calls[c].pc # "idle" }

\* C15: whenever processedImage is set, an image is selected and processedImage
\* was written by a call started on that image.
C15_OutputOfSelection ==
    processedImage # NULL =>
        /\ selectedImage # NULL
        /\ produced # NULL
        /\ produced.image = selectedImage

\* C16: at most one call is in progress, and isProcessing is true as long as one is.
C16_OneCallInProgress ==
    /\ Cardinality(InProgress) <= 1
    /\ InProgress # {} => isProcessing

====
